---- MODULE Spec2Model ----
(***************************************************************************)
(* Face-matching and redaction pipeline of mxber2022/facerecog.            *)
(*                                                                         *)
(*   Spec        the VideoStream component: model loading, startStream /   *)
(*               stopStream, the detection loop and the snapshot cell      *)
(*   EnrollSpec  the FaceManager component: batch enrollment and remove    *)
(*   ImportSpec  the FaceManager component: export and import of the face  *)
(*               database over galleries made by enrollment                *)
(*   RenderSpec  the render loop of VideoStream: processFrame on the       *)
(*               snapshot cell and the gallery, while gallery edits land   *)
(*   AutoStartSpec  starting a session, with loadModels() settling         *)
(*   TabSpec     the session while App unmounts and mounts VideoStream     *)
(*   MatcherSpec the matching step of processFrame as a pure function      *)
(*                                                                         *)
(* Embedding coordinates are integers counting tenths, so the threshold    *)
(* 0.6 is 6 and distances are compared by their squares.                   *)
(***************************************************************************)
EXTENDS Integers, Sequences, FiniteSets, TLC

VARIABLES
    \* ---- App state (ControlPanel.tsx, function App)
    activeTab,            \* useState('stream'): "stream" | "faces"
    streamUrl,            \* useState('')
    detectionConfidence,  \* useState(0.7), in tenths
    isProcessing,         \* useState(false), set through onProcessingChange
    faceDatabase,         \* useState([]): the gallery
    \* ---- VideoStream state (unnamed/part_000)
    models,               \* loadModels(): "loading" | "loaded" | "failed"
    isPlaying,            \* useState(false)
    error,                \* useState('')
    video,                \* videoRef.current: "paused" | "playing" | "ended"
    streamRef,            \* streamRef.current: a stream id, 0 for null
    tracks,               \* capture streams whose tracks are live
    starts,               \* startStream() calls suspended at an await
    loops,                \* detectLoop() instances that have not returned
    lastDetections,       \* lastDetectionsRef.current: the snapshot cell
    animation,            \* the handles of the requestAnimationFrame(animate) requests pending
    animationRef,         \* animationRef.current: the handle of the last request, 0 for none
    frameDatabase,        \* the faceDatabase held by the processFrame that animate calls
    detectionStats,       \* useState({fps, facesDetected, facesBlurred})
    canvas,               \* the rectangles the last processFrame() drew over the frame
    \* ---- FaceManager state (FaceManager.tsx)
    managerError,         \* useState('') of FaceManager
    processing,           \* useState(false) of FaceManager
    batches,              \* handleFileSelect() calls suspended at an await
    reader,               \* FileReader reads started by importDatabase
    now,                  \* Date.now()
    \* ---- inputs of the matcher (MatcherSpec)
    mDetection, mGallery, mVerdict

streamVars == <<streamUrl, detectionConfidence, isProcessing, models, isPlaying,
                error, video, streamRef, tracks, starts, loops, lastDetections>>
galleryVars == <<faceDatabase, managerError, processing, batches, reader, now>>
matcherVars == <<mDetection, mGallery, mVerdict>>
renderVars == <<animation, animationRef, frameDatabase, detectionStats, canvas>>
vars == <<activeTab, streamVars, galleryVars, matcherVars, renderVars>>

----------------------------------------------------------------------------
(* Bounds of the model. *)
MaxStarts == 1      \* startStream() calls in flight at once
MaxLoops == 2       \* detectLoop() instances alive at once
MaxStreams == 2     \* capture streams live at once
MaxGallery == 3     \* entries a batch may bring the gallery to
MaxClock == 1       \* the last millisecond Date.now() reaches
MaxKnown == 2       \* gallery entries given to the matcher on its own

(* if (distance < 0.6), in tenths *)
MatchThreshold == 6

(* Embeddings: Float32Array descriptors, two coordinates in tenths. *)
E0 == <<0, 0>>
E5 == <<5, 0>>
E6 == <<0, 6>>
EFar == <<10, 10>>
Embeddings == {E0, E5, E6, EFar}

(* What one detectAllFaces() call may return: a list of descriptors. *)
DetectionResults == {<< >>, <<E0>>, <<E5, EFar>>}

Urls == {"", "http", "webcam"}
Confidences == {5, 7}

NoStream == 0

----------------------------------------------------------------------------
(* The matcher: the loop over faceDatabase in processFrame. *)

RECURSIVE SumSq(_, _, _)
SumSq(arr1, arr2, k) ==
    IF k > Len(arr1) THEN 0
    ELSE (arr1[k] - arr2[k]) * (arr1[k] - arr2[k]) + SumSq(arr1, arr2, k + 1)

(* faceapi.euclideanDistance(arr1, arr2): throws when the lengths differ;  *)
(* gives the square of the distance, in hundredths.                          *)
euclideanDistance(arr1, arr2) ==
    IF Len(arr1) # Len(arr2)
    THEN [ok |-> FALSE, sq |-> 0]
    ELSE [ok |-> TRUE, sq |-> SumSq(arr1, arr2, 1)]

(* distance < 0.6, on the squares. *)
IsBelowThreshold(distance) == distance.sq < MatchThreshold * MatchThreshold

(* for (const knownFace of faceDatabase) from entry k on: "true" at the    *)
(* first entry below the threshold, "throws" when a distance throws.         *)
RECURSIVE KnownFaceLoop(_, _, _)
KnownFaceLoop(faceDescriptor, db, k) ==
    IF k > Len(db) THEN "false"
    ELSE LET distance == euclideanDistance(faceDescriptor, db[k].descriptor) IN
         IF ~distance.ok THEN "throws"
         ELSE IF IsBelowThreshold(distance) THEN "true"
         ELSE KnownFaceLoop(faceDescriptor, db, k + 1)

(* A matcher that compares with the first entry only. *)
ShouldBlurFirstOnly(faceDescriptor, db) ==
    IF Len(db) > 0
    THEN KnownFaceLoop(faceDescriptor, SubSeq(db, 1, 1), 1)
    ELSE "false"

(* shouldBlur of one detection: "true", "false", or "throws". *)
ShouldBlur(faceDescriptor, db) ==
    IF Len(db) > 0
    THEN KnownFaceLoop(faceDescriptor, db, 1)
    ELSE "false"

(* processFrame(): the rectangles drawn for the detections from index k   *)
(* on. Every detection gets an outline, a matched one a fill under it; a    *)
(* distance that throws ends the call with what was drawn so far.           *)
RECURSIVE DrawDetections(_, _, _, _)
DrawDetections(detections, db, k, boxes) ==
    IF k > Len(detections) THEN [completed |-> TRUE, boxes |-> boxes]
    ELSE LET shouldBlur == ShouldBlur(detections[k], db) IN
         IF shouldBlur = "throws" THEN [completed |-> FALSE, boxes |-> boxes]
         ELSE DrawDetections(detections, db, k + 1,
                             Append(boxes, [detection |-> detections[k],
                                            fill |-> shouldBlur = "true"]))

blurredCount(boxes) == Len(SelectSeq(boxes, LAMBDA box : box.fill))

(* A processFrame() that leaves the statistics alone when it drew nothing. *)
ProcessFrameSkipsEmpty(detections, db, stats) ==
    LET drawn == DrawDetections(detections, db, 1, << >>) IN
    [canvas |-> drawn,
     detectionStats |-> IF drawn.completed /\ detections # << >>
                        THEN [facesDetected |-> Len(detections),
                              facesBlurred |-> blurredCount(drawn.boxes)]
                        ELSE stats]

(* A processFrame() that reports the rectangles it filled as detected. *)
ProcessFrameCountsFills(detections, db, stats) ==
    LET drawn == DrawDetections(detections, db, 1, << >>) IN
    [canvas |-> drawn,
     detectionStats |-> IF drawn.completed
                        THEN [facesDetected |-> blurredCount(drawn.boxes),
                              facesBlurred |-> blurredCount(drawn.boxes)]
                        ELSE stats]

(* processFrame() on the snapshot and the gallery of its closure: what the *)
(* canvas shows afterwards and the statistics; setDetectionStats is the     *)
(* last statement and is not reached when the loop throws.                  *)
ProcessFrame(detections, db, stats) ==
    LET drawn == DrawDetections(detections, db, 1, << >>) IN
    [canvas |-> drawn,
     detectionStats |-> IF drawn.completed
                        THEN [facesDetected |-> Len(detections),
                              facesBlurred |-> blurredCount(drawn.boxes)]
                        ELSE stats]

(* requestAnimationFrame() gives a handle different from the last one. *)
NextHandle(h) == IF h = 1 THEN 2 ELSE 1

(* animate(): processFrame(), then animationRef.current =                  *)
(* requestAnimationFrame(animate); requests are the requests that are        *)
(* pending when it is called.                                                *)
Animate(detections, db, requests) ==
    LET frame == ProcessFrame(detections, db, detectionStats) IN
    /\ canvas' = frame.canvas
    /\ detectionStats' = frame.detectionStats
    /\ animationRef' = NextHandle(animationRef)
    /\ animation' = requests \cup {animationRef'}

(* cancelAnimationFrame(animationRef.current) *)
CancelAnimationFrame == animation \ {animationRef}

(* An animation effect whose cleanup cancels nothing. *)
AnimationEffectNoCancel(playing, loaded, db) ==
    IF playing /\ loaded
    THEN /\ frameDatabase' = db
         /\ Animate(lastDetections, db, animation)
    ELSE /\ animation' = CancelAnimationFrame
         /\ UNCHANGED <<animationRef, frameDatabase, detectionStats, canvas>>

(* An animation effect whose running loop keeps the processFrame it has. *)
AnimationEffectStale(playing, loaded, db) ==
    IF playing /\ loaded
    THEN /\ frameDatabase' = IF animation # {} THEN frameDatabase ELSE db
         /\ Animate(lastDetections, frameDatabase', CancelAnimationFrame)
    ELSE /\ animation' = CancelAnimationFrame
         /\ UNCHANGED <<animationRef, frameDatabase, detectionStats, canvas>>

(* The animation effect of a render with the given isPlaying, modelsLoaded *)
(* and faceDatabase: the cleanup of the last run cancels the request, then  *)
(* animate() is called with the new processFrame, or the request stays      *)
(* cancelled.                                                               *)
AnimationEffect(playing, loaded, db) ==
    IF playing /\ loaded
    THEN /\ frameDatabase' = db
         /\ Animate(lastDetections, db, CancelAnimationFrame)
    ELSE /\ animation' = CancelAnimationFrame
         /\ UNCHANGED <<animationRef, frameDatabase, detectionStats, canvas>>

----------------------------------------------------------------------------
(* VideoStream *)

modelsLoaded == models = "loaded"

(* autoStart={streamUrl === 'webcam'} *)
autoStart(url) == url = "webcam"

FreeId(used, max) == CHOOSE i \in 1..max : i \notin used /\ \A j \in 1..(i-1) : j \in used

LoopIds == {l.id : l \in loops}
StartIds == {c.id : c \in starts}
StreamIds == tracks \cup {c.stream : c \in starts} \cup {streamRef}

(* The detectAllFaces() calls in flight. rank gives their order of start:   *)
(* the call of rank 1 is the oldest one in flight; a loop that is not        *)
(* extracting has rank 0. superseded marks a call in flight whose result,    *)
(* if it comes, replaces the result of a call that started after it.         *)
Extracting == {l \in loops : l.pc = "extracting"}
NextRank == Cardinality(Extracting) + 1

(* The other calls in flight once the call of loop l has ended; published   *)
(* tells whether it ended by writing the snapshot cell.                      *)
OtherLoops(l, published) ==
    {[m EXCEPT !.rank = IF m.rank > l.rank THEN m.rank - 1 ELSE m.rank,
               !.superseded = (m.superseded \/
                               (published /\ m.pc = "extracting" /\ m.rank < l.rank))] :
        m \in loops \ {l}}

(* The detection effect body: a new detectLoop() runs up to its first await. *)
NewLoop(v) ==
    [id |-> FreeId(LoopIds, MaxLoops),
     pc |-> IF v = "playing" THEN "extracting" ELSE "sleeping",
     stopped |-> FALSE,
     stopSeen |-> FALSE,
     rank |-> IF v = "playing" THEN NextRank ELSE 0,
     superseded |-> FALSE]

(* The effect's cleanup: stopped = true. A loop waiting on its timer does  *)
(* nothing more than return when the timer fires, so it is dropped here; a  *)
(* loop with an extraction in flight stays until that extraction ends.       *)
Teardown(ls) ==
    {[l EXCEPT !.stopped = TRUE, !.stopSeen = TRUE] : l \in {m \in ls : m.pc = "extracting"}}

(* Assigning video.src or video.srcObject, and video.pause(), reject the   *)
(* play() promises that are still pending on the element.                   *)
AbortPlays(cs) ==
    {[c EXCEPT !.aborted = (c.aborted \/ c.pc = "play")] : c \in cs}

(* startStream() up to its first await, with the url of the current render. *)
(* Gives the error, the video state and the suspended calls it leaves. A    *)
(* call is detached once its component is unmounted: videoRef.current is    *)
(* null for it and its state setters do nothing.                            *)
BeginStart(url) ==
    IF url = ""
    THEN [error |-> "Please enter a stream URL", video |-> video, starts |-> starts]
    ELSE IF url = "http"
    THEN [error |-> "", video |-> "playing",
          starts |-> AbortPlays(starts) \cup
                     {[id |-> FreeId(StartIds, MaxStarts), kind |-> "http",
                       pc |-> "play", stream |-> NoStream, aborted |-> FALSE,
                       detached |-> FALSE]}]
    ELSE [error |-> "", video |-> video,
          starts |-> starts \cup
                     {[id |-> FreeId(StartIds, MaxStarts), kind |-> "cam",
                       pc |-> "getUserMedia", stream |-> NoStream, aborted |-> FALSE,
                       detached |-> FALSE]}]

(* A loadModels() whose render does not run the auto-start effect. *)
LoadModelsDoneNoAutoStart ==
    /\ activeTab = "stream"
    /\ models = "loading"
    /\ models' = "loaded"
    /\ loops' = loops \cup {NewLoop(video)}
    /\ isProcessing' = FALSE
    /\ AnimationEffect(isPlaying, TRUE, faceDatabase)
    /\ UNCHANGED <<streamUrl, detectionConfidence, isPlaying, streamRef, tracks,
                   error, video, starts, lastDetections, galleryVars, matcherVars, activeTab>>

(* loadModels() resolves: setModelsLoaded(true); then the effects of the   *)
(* render run: the detection loop starts, and auto-start calls startStream. *)
LoadModelsDone ==
    /\ activeTab = "stream"
    /\ models = "loading"
    /\ models' = "loaded"
    /\ loops' = loops \cup {NewLoop(video)}
    /\ isProcessing' = FALSE
    /\ IF autoStart(streamUrl) /\ ~isPlaying
       THEN LET s == BeginStart(streamUrl) IN
            /\ error' = s.error
            /\ video' = s.video
            /\ starts' = s.starts
       ELSE UNCHANGED <<error, video, starts>>
    /\ AnimationEffect(isPlaying, TRUE, faceDatabase)
    /\ UNCHANGED <<streamUrl, detectionConfidence, isPlaying, streamRef, tracks,
                   lastDetections, galleryVars, matcherVars, activeTab>>

(* loadModels() rejects. *)
LoadModelsFail ==
    /\ activeTab = "stream"
    /\ models = "loading"
    /\ models' = "failed"
    /\ error' = "Failed to load face detection models"
    /\ UNCHANGED <<streamUrl, detectionConfidence, isProcessing, isPlaying, video,
                   streamRef, tracks, starts, loops, lastDetections,
                   galleryVars, matcherVars, activeTab, renderVars>>

(* onStreamUrlChange: the url input, or the Use Webcam button. When        *)
(* autoStart becomes true the auto-start effect runs.                       *)
SetStreamUrl(u) ==
    /\ activeTab = "stream"
    /\ u # streamUrl
    /\ streamUrl' = u
    /\ IF autoStart(u) /\ ~autoStart(streamUrl) /\ ~isPlaying /\ modelsLoaded
       THEN /\ Cardinality(starts) < MaxStarts
            /\ LET s == BeginStart(u) IN
               /\ error' = s.error
               /\ video' = s.video
               /\ starts' = s.starts
       ELSE UNCHANGED <<error, video, starts>>
    /\ UNCHANGED <<detectionConfidence, isProcessing, models, isPlaying, streamRef,
                   tracks, loops, lastDetections, galleryVars, matcherVars, activeTab, renderVars>>

(* A Start button that is enabled whatever the state of the models. *)
StartStreamUnguarded ==
    /\ activeTab = "stream"
    /\ ~isPlaying
    /\ Cardinality(starts) < MaxStarts
    /\ LET s == BeginStart(streamUrl) IN
       /\ error' = s.error
       /\ video' = s.video
       /\ starts' = s.starts
    /\ UNCHANGED <<streamUrl, detectionConfidence, isProcessing, models, isPlaying,
                   streamRef, tracks, loops, lastDetections, galleryVars, matcherVars, activeTab, renderVars>>

(* The Start button: enabled when the models are loaded, shown while not   *)
(* playing.                                                                 *)
StartStream ==
    /\ activeTab = "stream"
    /\ modelsLoaded
    /\ ~isPlaying
    /\ Cardinality(starts) < MaxStarts
    /\ LET s == BeginStart(streamUrl) IN
       /\ error' = s.error
       /\ video' = s.video
       /\ starts' = s.starts
    /\ UNCHANGED <<streamUrl, detectionConfidence, isProcessing, models, isPlaying,
                   streamRef, tracks, loops, lastDetections, galleryVars, matcherVars, activeTab, renderVars>>

(* getUserMedia() resolves: srcObject = stream, then play() is called. In  *)
(* a call of an unmounted component if (videoRef.current) fails and the     *)
(* function returns with the stream it was given.                           *)
GetUserMediaResolve(c) ==
    /\ c.pc = "getUserMedia"
    /\ Cardinality(tracks) < MaxStreams
    /\ LET s == FreeId(StreamIds, MaxStreams + MaxStarts + 1) IN
       /\ tracks' = tracks \cup {s}
       /\ starts' = IF c.detached
                    THEN starts \ {c}
                    ELSE AbortPlays(starts \ {c}) \cup {[c EXCEPT !.pc = "play", !.stream = s]}
    /\ video' = IF c.detached THEN video ELSE "playing"
    /\ UNCHANGED <<streamUrl, detectionConfidence, isProcessing, models, isPlaying,
                   error, streamRef, loops, lastDetections, galleryVars, matcherVars, activeTab, renderVars>>

(* getUserMedia() rejects: the catch block. *)
GetUserMediaReject(c) ==
    /\ c.pc = "getUserMedia"
    /\ starts' = starts \ {c}
    /\ error' = IF c.detached THEN error ELSE "Failed to start stream"
    /\ UNCHANGED <<streamUrl, detectionConfidence, isProcessing, models, isPlaying,
                   video, streamRef, tracks, loops, lastDetections,
                   galleryVars, matcherVars, activeTab, renderVars>>

(* play() resolves: streamRef.current = stream (webcam), setIsPlaying(true); *)
(* the animation effect then calls animate() and reports                     *)
(* onProcessingChange(true).                                                 *)
PlayResolve(c) ==
    /\ c.pc = "play"
    /\ ~c.aborted
    /\ video = "playing"
    /\ starts' = starts \ {c}
    /\ streamRef' = IF c.kind = "cam" THEN c.stream ELSE streamRef
    /\ isPlaying' = TRUE
    /\ isProcessing' = modelsLoaded
    /\ AnimationEffect(TRUE, modelsLoaded, faceDatabase)
    /\ UNCHANGED <<streamUrl, detectionConfidence, models, error, video, tracks,
                   loops, lastDetections, galleryVars, matcherVars, activeTab>>

(* play() rejects: the catch block; the stream of the call stays untracked. *)
PlayReject(c) ==
    /\ c.pc = "play"
    /\ starts' = starts \ {c}
    /\ error' = "Failed to start stream"
    /\ UNCHANGED <<streamUrl, detectionConfidence, isProcessing, models, isPlaying,
                   video, streamRef, tracks, loops, lastDetections,
                   galleryVars, matcherVars, activeTab, renderVars>>

(* A Stop button that leaves the animation request alone. *)
StopStreamKeepsAnimation ==
    /\ activeTab = "stream"
    /\ isPlaying
    /\ video' = "paused"
    /\ tracks' = tracks \ {streamRef}
    /\ streamRef' = NoStream
    /\ isPlaying' = FALSE
    /\ isProcessing' = FALSE
    /\ loops' = {[l EXCEPT !.stopSeen = (l.stopSeen \/ l.pc = "extracting")] : l \in loops}
    /\ starts' = AbortPlays(starts)
    /\ UNCHANGED <<streamUrl, detectionConfidence, models, error,
                   lastDetections, galleryVars, matcherVars, activeTab, renderVars>>

(* The Stop button, shown while playing; the animation effect of the       *)
(* render with isPlaying false cancels the request.                         *)
StopStream ==
    /\ activeTab = "stream"
    /\ isPlaying
    /\ video' = "paused"
    /\ tracks' = tracks \ {streamRef}
    /\ streamRef' = NoStream
    /\ isPlaying' = FALSE
    /\ isProcessing' = FALSE
    /\ loops' = {[l EXCEPT !.stopSeen = (l.stopSeen \/ l.pc = "extracting")] : l \in loops}
    /\ starts' = AbortPlays(starts)
    /\ AnimationEffect(FALSE, modelsLoaded, faceDatabase)
    /\ UNCHANGED <<streamUrl, detectionConfidence, models, error,
                   lastDetections, galleryVars, matcherVars, activeTab>>

(* The display calls animate() for a pending request: one render tick. *)
RenderTick ==
    /\ \E h \in animation : Animate(lastDetections, frameDatabase, animation \ {h})
    /\ UNCHANGED <<frameDatabase, streamVars, galleryVars, matcherVars, activeTab>>

(* The media reaches its end. *)
VideoEnded ==
    /\ video = "playing"
    /\ isPlaying
    /\ video' = "ended"
    /\ UNCHANGED <<streamUrl, detectionConfidence, isProcessing, models, isPlaying,
                   error, streamRef, tracks, starts, loops, lastDetections,
                   galleryVars, matcherVars, activeTab, renderVars>>

(* The confidence slider, disabled while isProcessing: the detection       *)
(* effect is torn down and run again.                                       *)
SetDetectionConfidence(c) ==
    /\ activeTab = "stream"
    /\ ~isProcessing
    /\ c # detectionConfidence
    /\ detectionConfidence' = c
    /\ IF modelsLoaded
       THEN /\ Cardinality(loops) < MaxLoops
            /\ loops' = Teardown(loops) \cup {NewLoop(video)}
       ELSE UNCHANGED loops
    /\ UNCHANGED <<streamUrl, isProcessing, models, isPlaying, error, video,
                   streamRef, tracks, starts, lastDetections, galleryVars, matcherVars, activeTab, renderVars>>

(* The 200 ms timer of a loop fires: the while condition, then the video   *)
(* test, then either detectAllFaces() or the next timer.                    *)
LoopWake(l) ==
    /\ l.pc = "sleeping"
    /\ ~l.stopped
    /\ video = "playing"
    /\ loops' = (loops \ {l}) \cup {[l EXCEPT !.pc = "extracting", !.stopSeen = FALSE,
                                                !.rank = NextRank]}
    /\ UNCHANGED <<streamUrl, detectionConfidence, isProcessing, models, isPlaying,
                   error, video, streamRef, tracks, starts, lastDetections,
                   galleryVars, matcherVars, activeTab, renderVars>>

(* detectAllFaces() resolves: lastDetectionsRef.current = detections, then *)
(* the timer is awaited; a loop that was told to stop returns after it.      *)
ExtractDone(l, r) ==
    /\ l.pc = "extracting"
    /\ lastDetections' = r
    /\ loops' = IF l.stopped
                THEN OtherLoops(l, TRUE)
                ELSE OtherLoops(l, TRUE) \cup
                     {[l EXCEPT !.pc = "sleeping", !.stopSeen = FALSE,
                                !.rank = 0, !.superseded = FALSE]}
    /\ UNCHANGED <<streamUrl, detectionConfidence, isProcessing, models, isPlaying,
                   error, video, streamRef, tracks, starts, galleryVars, matcherVars, activeTab, renderVars>>

(* detectAllFaces() rejects: nothing catches it, detectLoop() ends. *)
ExtractFail(l) ==
    /\ l.pc = "extracting"
    /\ loops' = OtherLoops(l, FALSE)
    /\ UNCHANGED <<streamUrl, detectionConfidence, isProcessing, models, isPlaying,
                   error, video, streamRef, tracks, starts, lastDetections,
                   galleryVars, matcherVars, activeTab, renderVars>>

(* setActiveTab('faces') or setActiveTab('settings'): App stops rendering  *)
(* VideoStream and ControlPanel. The cleanups of the effects run: stopped =  *)
(* true for the detection loops, cancelAnimationFrame for the request;       *)
(* neither stopStream() nor onProcessingChange is called. The state and the  *)
(* refs of the component are gone, and stand at their first values for the   *)
(* component that is mounted next. What the loops and the play() promises of *)
(* the old component still do reaches only that component; a getUserMedia()  *)
(* that is pending still opens the camera.                                   *)
SwitchToFaces ==
    /\ activeTab = "stream"
    /\ activeTab' = "faces"
    /\ models' = "loading"
    /\ isPlaying' = FALSE
    /\ error' = ""
    /\ video' = "paused"
    /\ streamRef' = NoStream
    /\ starts' = {[c EXCEPT !.detached = TRUE] : c \in {d \in starts : d.pc = "getUserMedia"}}
    /\ loops' = {}
    /\ lastDetections' = << >>
    /\ animation' = CancelAnimationFrame
    /\ animationRef' = 0
    /\ frameDatabase' = << >>
    /\ detectionStats' = [facesDetected |-> 0, facesBlurred |-> 0]
    /\ canvas' = [completed |-> TRUE, boxes |-> << >>]
    /\ UNCHANGED <<streamUrl, detectionConfidence, isProcessing, tracks,
                   galleryVars, matcherVars>>

(* setActiveTab('stream'): a new VideoStream is mounted and its effects    *)
(* run: loadModels() is called, and the animation effect, with isPlaying     *)
(* false, reports onProcessingChange(false). The model goes back to the tab  *)
(* once the calls of the last component have settled.                        *)
SwitchToStream ==
    /\ activeTab = "faces"
    /\ starts = {}
    /\ activeTab' = "stream"
    /\ isProcessing' = FALSE
    /\ UNCHANGED <<streamUrl, detectionConfidence, models, isPlaying, error, video,
                   streamRef, tracks, starts, loops, lastDetections,
                   galleryVars, matcherVars, renderVars>>

----------------------------------------------------------------------------
(* FaceManager *)

(* The File objects a user may drop: the MIME type, the name without its   *)
(* extension, whether the image decodes (img.onload fires), and the face    *)
(* detectSingleFace() finds in it, << >> for none.                           *)
FaceA == [type |-> "image", name |-> "a", decodes |-> TRUE, face |-> E0]
FaceB == [type |-> "image", name |-> "b", decodes |-> TRUE, face |-> E5]
NoFace == [type |-> "image", name |-> "n", decodes |-> TRUE, face |-> << >>]
Corrupt == [type |-> "image", name |-> "c", decodes |-> FALSE, face |-> << >>]
Text == [type |-> "text", name |-> "t", decodes |-> FALSE, face |-> << >>]

FileLists == {<<FaceA, NoFace, FaceB>>, <<Corrupt, FaceA>>, <<Text, NoFace>>, <<FaceB>>,
              <<Text>>}
SeedLists == {<<FaceA, NoFace, FaceB>>, <<FaceB>>}

(* The handleFileSelect() calls and the FileReader reads that may be in    *)
(* flight at once, by name.                                                  *)
BatchSlots == {1}
ReaderSlots == {1}

(* processImage(): the value its promise resolves with, null for no face.  *)
(* The promise is settled from img.onload only.                              *)
ProcessImageSettles(file) == file.decodes
ProcessImage(file) ==
    IF file.face = << >>
    THEN [found |-> FALSE, descriptor |-> << >>, image |-> ""]
    ELSE [found |-> TRUE, descriptor |-> file.face, image |-> file.name]

(* The for loop of handleFileSelect from index i on: the files that are    *)
(* not images are skipped; gives the index of the next image to await, or   *)
(* Len(files) + 1 when the loop is over.                                     *)
RECURSIVE NextImage(_, _)
NextImage(files, i) ==
    IF i > Len(files) THEN i
    ELSE IF files[i].type # "image" THEN NextImage(files, i + 1)
    ELSE i

(* An end of handleFileSelect that reports the error whenever some image   *)
(* of the batch gave no face.                                                *)
BatchReturnsStrict(b) ==
    /\ IF b.newFaces = << >>
       THEN UNCHANGED <<faceDatabase, renderVars>>
       ELSE /\ faceDatabase' = b.faceDatabase \o b.newFaces
            /\ AnimationEffect(isPlaying, modelsLoaded, faceDatabase')
    /\ IF Len(b.newFaces) < Len(SelectSeq(b.files, LAMBDA f : f.type = "image"))
       THEN managerError' = "No faces detected in the uploaded images"
       ELSE UNCHANGED managerError
    /\ processing' = FALSE

(* The end of handleFileSelect, after the loop. onFaceDatabaseChange gives *)
(* a mounted VideoStream a new faceDatabase, so a new processFrame, and its *)
(* animation effect runs again.                                             *)
BatchReturns(b) ==
    /\ IF b.newFaces = << >>
       THEN /\ managerError' = "No faces detected in the uploaded images"
            /\ UNCHANGED <<faceDatabase, renderVars>>
       ELSE /\ faceDatabase' = b.faceDatabase \o b.newFaces
            /\ AnimationEffect(isPlaying, modelsLoaded, faceDatabase')
            /\ UNCHANGED managerError
    /\ processing' = FALSE

BatchIds == {b.id : b \in batches}
ReaderIds == {r.id : r \in reader}
FreeSlot(slots, used) == CHOOSE i \in slots \ used : \A j \in slots \ used : i <= j

(* handleFileSelect(files) up to its first await. The closure holds the    *)
(* faceDatabase prop of the render the handler belongs to.                   *)
HandleFileSelect(files) ==
    /\ activeTab = "faces"
    /\ BatchSlots \ BatchIds # {}
    /\ Len(faceDatabase) + Len(SelectSeq(files, LAMBDA f : f.face # << >>)) <= MaxGallery
    /\ LET b == [id |-> FreeSlot(BatchSlots, BatchIds), files |-> files,
                 i |-> NextImage(files, 1), newFaces |-> << >>,
                 faceDatabase |-> faceDatabase] IN
       IF b.i > Len(files)
       THEN /\ managerError' = "No faces detected in the uploaded images"
            /\ processing' = FALSE
            /\ UNCHANGED <<faceDatabase, batches>>
       ELSE /\ managerError' = ""
            /\ processing' = TRUE
            /\ batches' = batches \cup {b}
            /\ UNCHANGED faceDatabase
    /\ UNCHANGED <<reader, now, streamVars, matcherVars, activeTab, renderVars>>

(* await processImage(file, name) resumes: the result is pushed with the   *)
(* id Date.now() + i, and the loop goes on to the next image or ends.        *)
ImageProcessed(b) ==
    /\ ProcessImageSettles(b.files[b.i])
    /\ LET result == ProcessImage(b.files[b.i])
           pushed == IF result.found
                     THEN Append(b.newFaces,
                                 [id |-> now + (b.i - 1), name |-> b.files[b.i].name,
                                  descriptor |-> result.descriptor, image |-> result.image])
                     ELSE b.newFaces
           c == [b EXCEPT !.newFaces = pushed, !.i = NextImage(b.files, b.i + 1)] IN
       IF c.i > Len(c.files)
       THEN /\ BatchReturns(c)
            /\ batches' = batches \ {b}
       ELSE /\ batches' = (batches \ {b}) \cup {c}
            /\ UNCHANGED <<faceDatabase, managerError, processing, renderVars>>
    /\ UNCHANGED <<reader, now, streamVars, matcherVars, activeTab>>

(* Time passes. *)
Tick ==
    /\ now < MaxClock
    /\ now' = now + 1
    /\ UNCHANGED <<faceDatabase, managerError, processing, batches, reader,
                   streamVars, matcherVars, activeTab, renderVars>>

(* removeFace(id), from the trash button of an entry that is shown. *)
RemoveFace(id) ==
    /\ activeTab = "faces"
    /\ \E k \in 1..Len(faceDatabase) : faceDatabase[k].id = id
    /\ faceDatabase' = SelectSeq(faceDatabase, LAMBDA face : face.id # id)
    /\ UNCHANGED <<managerError, processing, batches, reader, now,
                   streamVars, matcherVars, activeTab, renderVars>>

(* JSON.stringify of a Float32Array: typed arrays have no toJSON and are   *)
(* written as objects keyed by index, {"0": v0, "1": v1, ...}. The values    *)
(* are float32 numbers, which print and parse back exactly.                  *)
StringifyFloat32Array(d) == [t |-> "object", n |-> 0, items |-> d]

(* JSON.stringify of one face: id, name and image are strings. *)
StringifyFace(face) ==
    [t |-> "object", id |-> face.id, name |-> face.name, image |-> face.image,
     descriptor |-> StringifyFloat32Array(face.descriptor)]

(* JSON.stringify(faceDatabase, null, 2) *)
Stringify(db) ==
    [kind |-> "json", t |-> "array", items |-> [k \in 1..Len(db) |-> StringifyFace(db[k])]]

(* exportDatabase(): the button is disabled for an empty gallery. The file *)
(* it downloads holds JSON.stringify(faceDatabase); the program keeps       *)
(* nothing of it, the file is what importDatabase may be given next.         *)
ExportDatabase(db) == IF db = << >> THEN {} ELSE {Stringify(db)}

(* Files a user may pick for import besides an exported one. A descriptor  *)
(* written as a JSON array is the format of the interface description.       *)
JArray(d) == [t |-> "array", n |-> 0, items |-> d]
JNumber(n) == [t |-> "number", n |-> n, items |-> << >>]
JNull == [t |-> "null", id |-> 0, name |-> "", image |-> "", descriptor |-> JNumber(0)]
JFace(id, name, d) == [t |-> "object", id |-> id, name |-> name, image |-> name, descriptor |-> d]
JFile(t, items) == [kind |-> "json", t |-> t, items |-> items]

Garbage == [kind |-> "garbage", t |-> "", items |-> << >>]
TopObject == JFile("object", << >>)
HandWritten == JFile("array", <<JFace(1, "h", JArray(E6)), JFace(2, "a", JArray(E0))>>)
WithNull == JFile("array", <<JFace(1, "h", JArray(E6)), JNull>>)
NegativeLength == JFile("array", <<JFace(2, "x", JNumber(-1))>>)
RepeatedId == JFile("array", <<JFace(1, "h", JArray(E6)), JFace(1, "a", JArray(E0))>>)
ImportFiles == {Garbage, TopObject, HandWritten, WithNull, NegativeLength, RepeatedId}

(* new Float32Array(x): an array gives its numbers; an object without a    *)
(* length gives an empty array; a number gives that many zeros and throws a *)
(* RangeError when negative.                                                 *)
NewFloat32Array(x) ==
    CASE x.t = "array" -> [ok |-> TRUE, value |-> x.items]
      [] x.t = "object" -> [ok |-> TRUE, value |-> << >>]
      [] x.t = "number" -> IF x.n < 0
                           THEN [ok |-> FALSE, value |-> << >>]
                           ELSE [ok |-> TRUE, value |-> [k \in 1..x.n |-> 0]]

(* The callback of data.map: {...face, descriptor: new Float32Array(        *)
(* face.descriptor)}; reading .descriptor of null throws a TypeError.        *)
FixFace(face) ==
    IF face.t = "null"
    THEN [ok |-> FALSE, value |-> << >>]
    ELSE LET d == NewFloat32Array(face.descriptor) IN
         IF d.ok
         THEN [ok |-> TRUE,
               value |-> [id |-> face.id, name |-> face.name,
                          descriptor |-> d.value, image |-> face.image]]
         ELSE [ok |-> FALSE, value |-> << >>]

(* data.map(...) from element k on: the faces converted so far, or the     *)
(* exception of the first element whose conversion throws.                   *)
RECURSIVE MapFixFace(_, _, _)
MapFixFace(items, k, fixed) ==
    IF k > Len(items) THEN [ok |-> TRUE, value |-> fixed]
    ELSE LET f == FixFace(items[k]) IN
         IF f.ok THEN MapFixFace(items, k + 1, Append(fixed, f.value))
         ELSE [ok |-> FALSE, value |-> fixed]

(* A reader.onload that applied each face as soon as it was converted. *)
OnLoadResultPartial(file, db, err) ==
    IF file.kind = "garbage"
    THEN [faceDatabase |-> db, error |-> "Invalid database file format"]
    ELSE IF file.t # "array"
    THEN [faceDatabase |-> db, error |-> err]
    ELSE LET fixed == MapFixFace(file.items, 1, << >>) IN
         [faceDatabase |-> fixed.value,
          error |-> IF fixed.ok THEN err ELSE "Invalid database file format"]

(* reader.onload: JSON.parse, Array.isArray, data.map, then one call of    *)
(* onFaceDatabaseChange(fixed); the catch block sets the error. Gives the    *)
(* gallery and the error the handler leaves.                                 *)
OnLoadResult(file, db, err) ==
    IF file.kind = "garbage"
    THEN [faceDatabase |-> db, error |-> "Invalid database file format"]
    ELSE IF file.t # "array"
    THEN [faceDatabase |-> db, error |-> err]
    ELSE LET fixed == MapFixFace(file.items, 1, << >>) IN
         IF fixed.ok
         THEN [faceDatabase |-> fixed.value, error |-> err]
         ELSE [faceDatabase |-> db, error |-> "Invalid database file format"]

(* importDatabase(e): a file is picked and reader.readAsText(file) starts. *)
ImportDatabase(file) ==
    /\ activeTab = "faces"
    /\ ReaderSlots \ ReaderIds # {}
    /\ reader' = reader \cup {[id |-> FreeSlot(ReaderSlots, ReaderIds), file |-> file]}
    /\ UNCHANGED <<faceDatabase, managerError, processing, batches, now,
                   streamVars, matcherVars, activeTab, renderVars>>

(* reader.onload fires with the text of the file. A gallery that changed   *)
(* runs the animation effect of a mounted VideoStream again.                *)
ReaderOnLoad(rd) ==
    /\ rd \in reader
    /\ reader' = reader \ {rd}
    /\ LET r == OnLoadResult(rd.file, faceDatabase, managerError) IN
       /\ faceDatabase' = r.faceDatabase
       /\ managerError' = r.error
       /\ IF r.faceDatabase # faceDatabase
          THEN AnimationEffect(isPlaying, modelsLoaded, r.faceDatabase)
          ELSE UNCHANGED renderVars
    /\ UNCHANGED <<processing, batches, now, streamVars, matcherVars, activeTab>>

----------------------------------------------------------------------------
(* The matcher on its own: a detection and a gallery of descriptors of the *)
(* detection's length.                                                       *)
KnownFace(d) == [id |-> 0, name |-> "k", descriptor |-> d, image |-> "k"]
RECURSIVE Galleries(_)
Galleries(n) ==
    IF n = 0 THEN {<< >>}
    ELSE LET shorter == Galleries(n - 1) IN
         shorter \cup {Append(g, KnownFace(d)) : g \in shorter, d \in Embeddings}

MatcherInputs ==
    /\ mDetection \in Embeddings
    /\ mGallery \in Galleries(MaxKnown)
    /\ mVerdict = "none"

Match ==
    /\ mVerdict = "none"
    /\ mVerdict' = ShouldBlur(mDetection, mGallery)
    /\ UNCHANGED <<mDetection, mGallery, activeTab, streamVars, galleryVars, renderVars>>

StreamInit ==
    /\ streamUrl = ""
    /\ detectionConfidence = 7
    /\ isProcessing = FALSE
    /\ models = "loading"
    /\ isPlaying = FALSE
    /\ error = ""
    /\ video = "paused"
    /\ streamRef = NoStream
    /\ tracks = {}
    /\ starts = {}
    /\ loops = {}
    /\ lastDetections = << >>
    /\ animation = {}
    /\ animationRef = 0
    /\ frameDatabase = << >>
    /\ detectionStats = [facesDetected |-> 0, facesBlurred |-> 0]
    /\ canvas = [completed |-> TRUE, boxes |-> << >>]

GalleryInit ==
    /\ faceDatabase = << >>
    /\ managerError = ""
    /\ processing = FALSE
    /\ batches = {}
    /\ reader = {}
    /\ now = 0

MatcherIdle ==
    /\ mDetection = E0
    /\ mGallery = << >>
    /\ mVerdict = "none"

(* The Live Stream tab is the one shown first. *)
Init == activeTab = "stream" /\ StreamInit /\ GalleryInit /\ MatcherIdle

(* The user has gone to the Face Database tab before anything else. *)
FacesInit == activeTab = "faces" /\ StreamInit /\ GalleryInit /\ MatcherIdle

Next ==
    \/ LoadModelsDone
    \/ LoadModelsFail
    \/ \E u \in Urls : SetStreamUrl(u)
    \/ StartStream
    \/ \E c \in starts : GetUserMediaResolve(c)
    \/ \E c \in starts : GetUserMediaReject(c)
    \/ \E c \in starts : PlayResolve(c)
    \/ \E c \in starts : PlayReject(c)
    \/ StopStream
    \/ VideoEnded
    \/ \E c \in Confidences : SetDetectionConfidence(c)
    \/ \E l \in loops : LoopWake(l)
    \/ \E l \in loops, r \in DetectionResults : ExtractDone(l, r)
    \/ \E l \in loops : ExtractFail(l)

Spec == Init /\ [][Next]_vars

(* Enrollment: every kind of batch, with the clock running. *)
EnrollNext ==
    \/ \E files \in FileLists : HandleFileSelect(files)
    \/ \E b \in batches : ImageProcessed(b)
    \/ Tick
    \/ \E k \in 1..Len(faceDatabase) : RemoveFace(faceDatabase[k].id)
    \/ ImportDatabase(HandWritten)
    \/ \E rd \in reader : ReaderOnLoad(rd)

EnrollSpec == FacesInit /\ [][EnrollNext]_vars

(* Export and import: every kind of file, over galleries that batches fill. *)
ImportNext ==
    \/ \E files \in SeedLists : HandleFileSelect(files)
    \/ \E b \in batches : ImageProcessed(b)
    \/ \E k \in 1..Len(faceDatabase) : RemoveFace(faceDatabase[k].id)
    \/ \E file \in ImportFiles \cup ExportDatabase(faceDatabase) : ImportDatabase(file)
    \/ \E rd \in reader : ReaderOnLoad(rd)

ImportSpec == FacesInit /\ [][ImportNext]_vars

(* The render loop: a VideoStream mounted while FaceManager work is still  *)
(* in flight. The user started a batch or an import on the Face Database    *)
(* tab and went back to the Live Stream tab, which mounts a new VideoStream; *)
(* the batch or the read ends later and calls onFaceDatabaseChange. The      *)
(* confidence slider is left alone (it is disabled while frames are         *)
(* rendered).                                                                *)
EnrolledB == [id |-> 0, name |-> "b", descriptor |-> E5, image |-> "b"]
BatchInFlight(db, files) ==
    [id |-> 1, files |-> files, i |-> NextImage(files, 1), newFaces |-> << >>,
     faceDatabase |-> db]

RenderInit ==
    /\ activeTab = "stream"
    /\ StreamInit
    /\ MatcherIdle
    /\ managerError = ""
    /\ now = 0
    /\ \/ /\ faceDatabase = << >>
          /\ batches = {BatchInFlight(<< >>, <<FaceB>>)}
          /\ reader = {}
       \/ /\ faceDatabase = <<EnrolledB>>
          /\ batches = {}
          /\ reader = {[id |-> 1, file |-> Stringify(<<EnrolledB>>)]}
       \/ /\ faceDatabase = <<EnrolledB>>
          /\ batches = {}
          /\ reader = {[id |-> 1, file |-> HandWritten]}
    /\ processing = (batches # {})

RenderNext ==
    \/ LoadModelsDone
    \/ LoadModelsFail
    \/ \E u \in Urls : SetStreamUrl(u)
    \/ StartStream
    \/ \E c \in starts : GetUserMediaResolve(c)
    \/ \E c \in starts : GetUserMediaReject(c)
    \/ \E c \in starts : PlayResolve(c)
    \/ \E c \in starts : PlayReject(c)
    \/ StopStream
    \/ RenderTick
    \/ VideoEnded
    \/ \E l \in loops : LoopWake(l)
    \/ \E l \in loops, r \in DetectionResults : ExtractDone(l, r)
    \/ \E b \in batches : ImageProcessed(b)
    \/ \E rd \in reader : ReaderOnLoad(rd)

RenderSpec == RenderInit /\ [][RenderNext]_vars

(* Starting a session: the url, the Start and Stop buttons, auto-start and *)
(* the promises of loadModels(), getUserMedia() and play(). The promise of   *)
(* loadModels() settles: the three loadFromUri() requests end by a response  *)
(* or by a network error.                                                    *)
AutoStartNext ==
    \/ LoadModelsDone
    \/ LoadModelsFail
    \/ \E u \in Urls : SetStreamUrl(u)
    \/ StartStream
    \/ \E c \in starts : GetUserMediaResolve(c)
    \/ \E c \in starts : GetUserMediaReject(c)
    \/ \E c \in starts : PlayResolve(c)
    \/ \E c \in starts : PlayReject(c)
    \/ StopStream
    \/ VideoEnded

(* The session with the tabs: VideoStream is unmounted and mounted again. *)
TabNext ==
    \/ Next
    \/ RenderTick
    \/ SwitchToFaces
    \/ SwitchToStream

TabSpec == Init /\ [][TabNext]_vars

LoadModelsSettles == WF_vars(LoadModelsDone \/ LoadModelsFail)

AutoStartSpec == Init /\ [][AutoStartNext]_vars /\ LoadModelsSettles

MatcherInit == activeTab = "stream" /\ StreamInit /\ GalleryInit /\ MatcherInputs
MatcherSpec == MatcherInit /\ [][Match]_vars

----
(* Claims about the detection loop and the session (Spec). *)

(* C1: in every reachable state at most one extraction call is outstanding. *)
C1_AtMostOneExtraction == Cardinality(Extracting) <= 1

(* The extraction of loop l completes, by resolving or rejecting, in this step. *)
ExtractionEnds(l) ==
    /\ l \in Extracting
    /\ \A m \in loops' : m.id = l.id => m.pc # "extracting"

(* C2: an extraction that was in flight when the session was stopped, or   *)
(* when its loop was torn down, never changes the snapshot cell: when it    *)
(* completes the cell keeps the value it had.                               *)
C2_StoppedResultDiscarded ==
    [][\A l \in loops : (l.stopSeen /\ ExtractionEnds(l)) => lastDetections' = lastDetections]_vars

(* C3: when stopStream() returns, every capture stream that was opened has *)
(* had its tracks stopped and isPlaying is false.                           *)
C3_StopReleasesSource ==
    [][(isPlaying /\ ~isPlaying') => tracks' = {}]_vars

(* C4: a failing extraction is swallowed: whenever an extraction of a loop *)
(* that was not told to stop ends, by success or by failure, that loop is   *)
(* still running and waits for its next poll.                                *)
C4_FailureSwallowed ==
    [][\A l \in loops : (~l.stopped /\ ExtractionEnds(l)) =>
            \E m \in loops' : m.id = l.id /\ m.pc = "sleeping"]_vars

----------------------------------------------------------------------------
(* Claims about the matcher (MatcherSpec) and the gallery (ImportSpec,     *)
(* EnrollSpec).                                                              *)

DistancesSq(d, db) == {euclideanDistance(d, db[k].descriptor).sq : k \in 1..Len(db)}
MinDistanceSq(d, db) ==
    CHOOSE m \in DistancesSq(d, db) : \A x \in DistancesSq(d, db) : m <= x

(* C5: the verdict of the matcher is: the gallery is not empty and the     *)
(* least distance from the detection to a gallery entry is below 0.6; with  *)
(* an empty gallery the verdict is false.                                    *)
C5_VerdictIsMinBelowThreshold ==
    mVerdict # "none" =>
        mVerdict = IF /\ mGallery # << >>
                      /\ MinDistanceSq(mDetection, mGallery) < MatchThreshold * MatchThreshold
                   THEN "true" ELSE "false"

(* The matcher has decided a detection that only the second entry matches. *)
C5_Witness ==
    /\ mVerdict = "true"
    /\ Len(mGallery) = 2
    /\ ~IsBelowThreshold(euclideanDistance(mDetection, mGallery[1].descriptor))

(* C6: for every gallery reached by enroll, remove and import, a detection *)
(* whose descriptor equals the descriptor of some entry is matched.          *)
C6_ExactMatchIsMatched ==
    \A e \in Embeddings :
        (\E k \in 1..Len(faceDatabase) : faceDatabase[k].descriptor = e)
            => ShouldBlur(e, faceDatabase) = "true"

(* The read rd ends in this step: reader.onload has run. *)
OnLoadRuns(rd) == rd \in reader /\ rd \notin reader'

(* C7: importing the file that exportDatabase() writes for a gallery gives *)
(* that gallery again: the same entries with the same descriptors.           *)
C7_ExportImportRoundTrip ==
    [][\A rd \in reader :
          (OnLoadRuns(rd) /\ rd.file \in ExportDatabase(faceDatabase))
              => faceDatabase' = faceDatabase]_vars

Decodable(file) ==
    /\ file.kind = "json"
    /\ file.t = "array"
    /\ \A k \in 1..Len(file.items) : FixFace(file.items[k]).ok
Decoded(file) == [k \in 1..Len(file.items) |-> FixFace(file.items[k]).value]

(* C8: after an import the gallery is either the gallery of before, or the *)
(* whole sequence decoded from the file; nothing in between.                 *)
C8_ImportAllOrNothing ==
    [][\A rd \in reader :
          OnLoadRuns(rd) =>
              \/ faceDatabase' = faceDatabase
              \/ Decodable(rd.file) /\ faceDatabase' = Decoded(rd.file)]_vars

(* An import that threw part-way has left a gallery that was not empty. *)
C8_Witness ==
    /\ managerError = "Invalid database file format"
    /\ reader = {}
    /\ Len(faceDatabase) = 2
    /\ \A k \in 1..Len(faceDatabase) : Len(faceDatabase[k].descriptor) = 0

(* C9: an import whose top-level value is not an array is rejected: the    *)
(* import error is set and the gallery is unchanged.                         *)
C9_NonArrayRejected ==
    [][\A rd \in reader :
          (OnLoadRuns(rd) /\ rd.file.kind = "json" /\ rd.file.t # "array")
              => /\ managerError' = "Invalid database file format"
                 /\ faceDatabase' = faceDatabase]_vars

(* The entries a batch has to append: one for each file with a face, in    *)
(* the order of the files.                                                   *)
FacesOf(files) == SelectSeq(files, LAMBDA f : f.type = "image" /\ f.face # << >>)
SameFaces(entries, files) ==
    /\ Len(entries) = Len(files)
    /\ \A k \in 1..Len(entries) :
          entries[k].descriptor = files[k].face /\ entries[k].name = files[k].name

(* The batch b returns in this step. *)
BatchEnds(b) == b \in batches /\ b.id \notin {c.id : c \in batches'}

(* C10: every image of a batch is processed whatever happened to the       *)
(* images before it, so a batch in flight can always take its next step;    *)
(* and when a batch with k faces returns, the gallery is the gallery of     *)
(* before the batch followed by k new entries in the order of the images.   *)
C10_BatchProcessesEveryImage ==
    /\ [](\A b \in batches : ENABLED ImageProcessed(b))
    /\ [][\A b \in batches :
             (BatchEnds(b) /\ FacesOf(b.files) # << >>)
                 => /\ Len(faceDatabase') = Len(b.faceDatabase) + Len(FacesOf(b.files))
                    /\ SubSeq(faceDatabase', 1, Len(b.faceDatabase)) = b.faceDatabase
                    /\ SameFaces(SubSeq(faceDatabase', Len(b.faceDatabase) + 1,
                                        Len(faceDatabase')),
                                 FacesOf(b.files))]_vars

RemoveStep == faceDatabase' # faceDatabase /\ batches' = batches /\ reader' = reader
RemoveAt(db, k) == SubSeq(db, 1, k - 1) \o SubSeq(db, k + 1, Len(db))

(* C12: a remove deletes one entry, the one whose button was pressed, and  *)
(* leaves every other entry present, unmodified and in the same order.      *)
C12_RemoveDeletesOneEntry ==
    [][RemoveStep => \E k \in 1..Len(faceDatabase) :
                         faceDatabase' = RemoveAt(faceDatabase, k)]_vars

(* C13: in every reachable gallery no two entries have the same id. *)
C13_UniqueIds ==
    \A i, j \in 1..Len(faceDatabase) :
        i # j => faceDatabase[i].id # faceDatabase[j].id

----------------------------------------------------------------------------
(* Claims about starting a session (Spec). *)

(* C14, as the interface description states it: startStream() called while *)
(* the models are not loaded ends at once with an error, opens no source    *)
(* and leaves the video as it is, whatever the url.                          *)
C14_StartFailsFastUnloaded ==
    ~modelsLoaded =>
        \A u \in Urls :
            /\ BeginStart(u).error # ""
            /\ BeginStart(u).starts = starts
            /\ BeginStart(u).video = video

(* C14, as the program has it: while the models are not loaded the Start   *)
(* button cannot be used and auto-start waits, so no start is in flight, no *)
(* source is open, the video is paused, nothing is extracted and the        *)
(* session is not playing.                                                   *)
C14_NoStartWhileUnloaded ==
    ~modelsLoaded =>
        /\ ~ENABLED StartStream
        /\ starts = {}
        /\ tracks = {}
        /\ video = "paused"
        /\ Extracting = {}
        /\ ~isPlaying

(* The models failed to load with auto-start asked for by the url. *)
C14_Witness ==
    /\ models = "failed"
    /\ autoStart(streamUrl)
    /\ starts = {}
    /\ ~isPlaying

(* The loop l of the next state has just called detectAllFaces(). *)
ExtractionBegins(l) ==
    /\ l.pc = "extracting"
    /\ \A m \in loops : m.id = l.id => m.pc # "extracting"

StartErrors == {"Please enter a stream URL", "Failed to start stream"}

(* C15: when a start fails (no url, getUserMedia or play() rejecting) the  *)
(* session is not playing and not processing, and as long as that error     *)
(* stands and the session is stopped no extraction is begun.                 *)
C15_FailedStartStaysStopped ==
    [][/\ (error' \in StartErrors /\ error' # error) => (~isPlaying' /\ ~isProcessing')
       /\ (error \in StartErrors /\ error' = error /\ ~isPlaying')
              => \A l \in loops' : ~ExtractionBegins(l)]_vars

(* C20: detectAllFaces() is called only while the session is playing and   *)
(* the video is neither paused nor ended.                                    *)
C20_ExtractionOnlyWhileRunning ==
    [][\A l \in loops' :
          ExtractionBegins(l) => (isPlaying' /\ video' = "playing")]_vars

----------------------------------------------------------------------------
(* Claims about the render loop (RenderSpec). *)

(* animate() has run in this step: a render tick. *)
TickStep == animationRef' # animationRef

(* Some gallery entry lies within the threshold of the detection. *)
Matched(d, db) ==
    \E k \in 1..Len(db) :
        /\ euclideanDistance(d, db[k].descriptor).ok
        /\ euclideanDistance(d, db[k].descriptor).sq < MatchThreshold * MatchThreshold

(* C16: after a render tick that completed, facesDetected is the length of *)
(* the snapshot the tick read and facesBlurred is the number of its         *)
(* detections that match the gallery, which is the number of fills drawn;   *)
(* facesBlurred never exceeds facesDetected.                                 *)
C16_StatsMatchTick ==
    /\ [](detectionStats.facesBlurred <= detectionStats.facesDetected)
    /\ [][(TickStep /\ canvas'.completed) =>
             /\ detectionStats'.facesDetected = Len(lastDetections')
             /\ detectionStats'.facesBlurred =
                    Cardinality({k \in 1..Len(lastDetections') :
                                     Matched(lastDetections'[k], frameDatabase')})
             /\ detectionStats'.facesBlurred = blurredCount(canvas'.boxes)]_vars

(* A tick has counted two detections of which one was filled. *)
C16_Witness ==
    /\ animation # {}
    /\ canvas.completed
    /\ detectionStats = [facesDetected |-> 2, facesBlurred |-> 1]
    /\ Len(lastDetections) = 2

(* C17: a render tick that reads an empty snapshot sets both statistics to *)
(* zero and draws no rectangle, whatever the gallery.                        *)
C17_EmptySnapshotDrawsNothing ==
    [][(TickStep /\ lastDetections' = << >>) =>
          /\ detectionStats' = [facesDetected |-> 0, facesBlurred |-> 0]
          /\ canvas' = [completed |-> TRUE, boxes |-> << >>]]_vars

(* A tick has read an empty snapshot with a gallery that holds an entry    *)
(* whose descriptor is empty.                                                *)
C17_Witness ==
    /\ animation # {}
    /\ lastDetections = << >>
    /\ canvas.boxes = << >>
    /\ detectionStats = [facesDetected |-> 0, facesBlurred |-> 0]
    /\ \E k \in 1..Len(faceDatabase) : faceDatabase[k].descriptor = << >>

(* C18: an animation request is pending only while the session is playing  *)
(* with the models loaded; a render tick runs only then; and the step that   *)
(* ends playing cancels the pending request.                                 *)
C18_NoTickWhenNotRunning ==
    /\ [](animation # {} => (isPlaying /\ modelsLoaded))
    /\ [][/\ TickStep => (isPlaying' /\ models' = "loaded")
          /\ (isPlaying /\ ~isPlaying') => animation' = {}]_vars

(* The session was stopped after ticks had run. *)
C18_Witness ==
    /\ ~isPlaying
    /\ animation = {}
    /\ animationRef # 0
    /\ video = "paused"

----------------------------------------------------------------------------
(* Claims about the order of snapshots (Spec). *)

(* C21: a snapshot from an extraction that started earlier never replaces  *)
(* one from an extraction that started later: when an extraction ends after  *)
(* a later one has published, the snapshot cell keeps its value.             *)
C21_SnapshotsInStartOrder ==
    [][\A l \in loops :
          (l.superseded /\ ExtractionEnds(l)) => lastDetections' = lastDetections]_vars

----------------------------------------------------------------------------
(* Claims about auto-start (AutoStartSpec). *)

(* A startStream() call is made in this step and is suspended at an await. *)
StartInvoked == \E c \in starts' : c.id \notin StartIds

(* C22: with auto-start asked for and the session stopped, the step in     *)
(* which the models finish loading calls startStream(); a startStream()      *)
(* call is made only with the models loaded; and, the load settling, models  *)
(* that are loading with auto-start asked for lead to a start call, to a     *)
(* failed load, or to auto-start no longer being asked for.                  *)
C22_AutoStartOnLoad ==
    /\ [][/\ (models = "loading" /\ models' = "loaded" /\ autoStart(streamUrl) /\ ~isPlaying)
                => StartInvoked
          /\ StartInvoked => models' = "loaded"]_vars
    /\ [](~modelsLoaded => starts = {})
    /\ (models = "loading" /\ autoStart(streamUrl))
           ~> (starts # {} \/ models = "failed" \/ ~autoStart(streamUrl))

(* The models are loaded, auto-start is asked for and its startStream()    *)
(* call waits for the camera; nothing was started or refused before.         *)
C22_Witness ==
    /\ modelsLoaded
    /\ autoStart(streamUrl)
    /\ \E c \in starts : c.pc = "getUserMedia"
    /\ tracks = {}
    /\ error = ""
    /\ ~isPlaying

----------------------------------------------------------------------------
(* Claims about failures in the render loop (RenderSpec). *)

(* C23: every render tick runs to completion and sets the statistics from  *)
(* the snapshot it read, whatever the gallery that enroll, remove and import *)
(* have left.                                                                *)
C23_TickCompletes ==
    [][TickStep =>
          /\ canvas'.completed
          /\ detectionStats'.facesDetected = Len(lastDetections')]_vars

----------------------------------------------------------------------------
(* Claims about interleaved gallery edits (EnrollSpec). *)

(* C24: a batch that returns with faces appends them to the gallery of     *)
(* that moment: what a remove or an import did while the batch was           *)
(* processing its images is still there afterwards.                          *)
C24_EditsSurviveBatch ==
    [][\A b \in batches :
          (BatchEnds(b) /\ FacesOf(b.files) # << >>)
              => /\ Len(faceDatabase') = Len(faceDatabase) + Len(FacesOf(b.files))
                 /\ SubSeq(faceDatabase', 1, Len(faceDatabase)) = faceDatabase]_vars

----------------------------------------------------------------------------
(* Claims about the session across tab switches (TabSpec). *)

(* The streams that a startStream() call in flight holds. *)
HeldByStart == {c.stream : c \in {d \in starts : ~d.detached}}

(* C25: every capture stream whose tracks are live is the stream tracked   *)
(* in streamRef, which the next stopStream() releases, or is held by a        *)
(* startStream() call that has not returned.                                  *)
C25_NoStreamLeaked == tracks \subseteq ({streamRef} \cup HeldByStart)

(* Render ticks are being scheduled: an animation request is pending. *)
TicksScheduled == animation # {}

(* C26: the processing flag that App holds is true exactly when render     *)
(* ticks are being scheduled, and that is exactly when a mounted VideoStream *)
(* is playing with its models loaded.                                        *)
C26_ProcessingFlagExact ==
    /\ isProcessing <=> TicksScheduled
    /\ TicksScheduled <=> (activeTab = "stream" /\ isPlaying /\ modelsLoaded)

----------------------------------------------------------------------------
(* Claims about the animation requests (RenderSpec). *)

(* C27: at most one animation request is pending at any time, and it is    *)
(* the one whose handle animationRef holds: each run of the animation        *)
(* effect cancels the request of the last chain before animate() makes the   *)
(* first of the next, so one display refresh runs at most one render tick.   *)
C27_OneTickChain ==
    /\ Cardinality(animation) <= 1
    /\ animation \subseteq {animationRef}

(* Frames are rendered after the render loop was started again: the last   *)
(* tick failed on a gallery that an import brought, and the statistics are   *)
(* those of a tick that ran with the gallery of before.                      *)
C27_Witness ==
    /\ animation # {}
    /\ ~canvas.completed
    /\ detectionStats.facesBlurred = 1
    /\ reader = {}

====
